---- MODULE Spec2Model ----
(***************************************************************************)
(* State-machine model of the based-rollup driver's ingestion components:  *)
(*   - EventIndexer (src/src/event_indexer/event_indexer.rs): historical   *)
(*     indexing, live indexing, bounded retry of the log fetch;            *)
(*   - DAWatcher (src/src/da_watcher/mod.rs): the producer task feeding a  *)
(*     bounded tokio mpsc channel.                                         *)
(* Each await point of the async code is one value of a program counter;   *)
(* an action is the code between two await points.                         *)
(***************************************************************************)
EXTENDS Integers, Sequences, FiniteSets, TLC

(***************************************************************************)
(* Bounds of the model.                                                    *)
(***************************************************************************)
\* Largest value of the modelled unsigned integer type (u64 scaled down).
U64Max == 6
\* Headers handled by one live loop before the model stops delivering more.
MaxHeaders == 2
\* Largest channel capacity a watcher is constructed with.
MaxBufferSize == 3
\* Manifests the producer task builds before the model stops it.
MaxManifests == 5

\* Sub-range fetches of one index_events call before the model stops it (a
\* release build whose `end + 1` wraps never leaves the loop).
MaxFetches == U64Max + 2

Modulus == U64Max + 1
U64 == 0..U64Max
None == -1
OptionU64 == U64 \cup {None}

Min(a, b) == IF a <= b THEN a ELSE b

\* Wrapping arithmetic of a release build (overflow-checks off).
WrappingAdd(a, b) == (a + b) % Modulus
WrappingSub(a, b) == (a - b + Modulus) % Modulus

\* max_retries: 3 and retry_delay_ms: 1000 in EventIndexerConfig::default.
DefaultMaxRetries == 3
DefaultRetryDelayMs == 1000
\* The configurations an indexer is constructed with: every batch size with
\* the default retry settings, and one whose retry settings are not the
\* defaults.
Configs ==
    {[batch_size |-> b, max_retries |-> DefaultMaxRetries,
      retry_delay_ms |-> DefaultRetryDelayMs] : b \in 1..U64Max}
    \cup {[batch_size |-> 2, max_retries |-> DefaultMaxRetries - 2,
            retry_delay_ms |-> DefaultRetryDelayMs \div 2]}

\* const MAX_RETRIES: u32 = 3 in fetch_logs_range.
MAX_RETRIES == 3
\* The literal 1000 of Duration::from_millis(1000 * retries as u64).
BackoffUnitMs == 1000

VARIABLES
    \* ---- EventIndexer fields
    last_indexed_block,
    is_indexing,
    batch_size,          \* config.batch_size
    max_retries,         \* config.max_retries
    retry_delay_ms,      \* config.retry_delay_ms
    \* ---- build profile: TRUE = overflow-checks on (debug), arithmetic
    \*      overflow panics; FALSE = release, arithmetic wraps
    overflow_checks,
    \* ---- the provider answers get_logs with the logs in ascending block
    \*      order (TRUE) or in descending block order (FALSE)
    provider_ascending,
    \* ---- the cancellation token behind CancellableContext::cancelled
    cancelled,
    \* ---- control state of the indexer's async call chain
    pc,                  \* await point the indexer is at
    phase,               \* "none" | "direct" | "historical" | "live"
    result,              \* outcome of the last top-level call
    ie_status,           \* outcome of the last index_events call
    \* ---- local of run
    latest_block,        \* answer of get_block_number (None outside run)
    \* ---- locals of index_events
    from_block,
    to_block,
    current,
    all_logs,
    \* ---- locals of fetch_logs_range
    filter,              \* <<from, to>> of the filter built at entry
    retries,
    fetch_result,        \* "none" | "pending" | "ok" | "err"
    \* ---- history of the current top-level call
    fetches,             \* ranges handed to fetch_logs_range, in order
    requests,            \* get_logs requests issued by the current fetch
    failures,            \* Err answers of get_logs to the current fetch
    sleeps,              \* delays slept by the current fetch, in order
    processed,           \* block numbers of the logs given to process_log
    headers,             \* headers taken from the subscription stream
    hist_cursor,         \* cursor when the subscription was opened
    cursor_indexed,      \* last_indexed_block was last written after a
                         \* successful fetch (not by new or by run's start)
    \* ---- DAWatcher
    buffer_size,
    wpc,                 \* producer task: "new" | "send" | "sleep" | "done" | "panicked"
    block_number,        \* the task's counter
    chan,                \* manifests buffered in the channel
    rx_alive,            \* the Receiver has not been dropped
    sent,                \* manifests whose send returned Ok
    received,            \* manifests returned by recv
    sends_after_drop     \* send calls begun after the receiver was dropped

cfg_vars == <<batch_size, max_retries, retry_delay_ms, overflow_checks,
              provider_ascending>>
\* locals and history of fetch_logs_range
fetch_vars == <<filter, retries, fetch_result, requests, failures, sleeps>>
\* locals and outcome of index_events
ie_vars == <<from_block, to_block, current, all_logs, ie_status>>
idx_vars == <<last_indexed_block, is_indexing, pc, phase, result, ie_vars,
              fetch_vars, fetches, processed, headers, hist_cursor,
              latest_block, cursor_indexed>>
w_vars == <<buffer_size, wpc, block_number, chan, rx_alive, sent, received,
            sends_after_drop>>
vars == <<cfg_vars, cancelled, idx_vars, w_vars>>

(***************************************************************************)
(* The provider: the contract emits one log per block. A log is            *)
(* represented by its block number.                                        *)
(***************************************************************************)
\* The logs of the blocks from..to, in ascending block order.
LogsOf(from, to) ==
    IF from <= to THEN [i \in 1..(to - from + 1) |-> from + i - 1] ELSE <<>>

Reverse(s) == [i \in 1..Len(s) |-> s[Len(s) + 1 - i]]

\* The answer of provider.get_logs to the filter (from, to): the logs of the
\* range, in the order this provider returns them.
GetLogs(from, to) ==
    IF provider_ascending THEN LogsOf(from, to) ELSE Reverse(LogsOf(from, to))

(***************************************************************************)
(* Initial states.                                                         *)
(***************************************************************************)
\* EventIndexer::new
IndexerNew ==
    /\ last_indexed_block = 0
    /\ is_indexing = FALSE
    /\ pc = "idle"
    /\ phase = "none"
    /\ result = "none"
    /\ ie_status = "none"
    /\ from_block = 0
    /\ to_block = 0
    /\ current = 0
    /\ all_logs = <<>>
    /\ filter = <<0, 0>>
    /\ retries = 0
    /\ fetch_result = "none"
    /\ fetches = <<>>
    /\ requests = 0
    /\ failures = 0
    /\ sleeps = <<>>
    /\ processed = <<>>
    /\ headers = 0
    /\ hist_cursor = None
    /\ latest_block = None
    /\ cursor_indexed = FALSE

\* DAWatcher::new
WatcherNew ==
    /\ wpc = "new"
    /\ block_number = 0
    /\ chan = <<>>
    /\ rx_alive = TRUE
    /\ sent = <<>>
    /\ received = <<>>
    /\ sends_after_drop = 0

Init ==
    /\ \E c \in Configs :
         /\ batch_size = c.batch_size
         /\ max_retries = c.max_retries
         /\ retry_delay_ms = c.retry_delay_ms
    /\ overflow_checks \in BOOLEAN
    /\ provider_ascending = TRUE
    /\ cancelled = FALSE
    /\ IndexerNew
    /\ buffer_size = 1
    /\ WatcherNew

(***************************************************************************)
(* EventIndexer.                                                           *)
(*                                                                         *)
(* The await points are get_block_number, get_logs, sleep, subscribe_blocks*)
(* and block_stream.next(); process_log has none inside and always returns *)
(* Ok, so a `for` loop over logs runs to its end within one action.        *)
(***************************************************************************)
\* let end = (current + self.config.batch_size - 1).min(to_block), as a
\* release build computes it.
SubRangeEnd(cur, to) ==
    Min(WrappingSub(WrappingAdd(cur, batch_size), 1), to)

\* `current + self.config.batch_size - 1` leaves the integer type.
SubRangeEndOverflows(cur) == cur + batch_size > U64Max \/ cur + batch_size < 1

\* Mutant: the cursor is set to the lower bound of the fetched sub-range.
CursorAfterFetch_LowerBound(from, end) == from

\* self.last_indexed_block = end
CursorAfterFetch(from, end) == end

\* let from_block = self.last_indexed_block + 1, as a release build computes
\* it.
LiveFromBlock(cursor) == WrappingAdd(cursor, 1)

\* Mutant: the retry arm is guarded by the configured max_retries.
RetryAllowed_Configured(r) == r < max_retries

\* The guard `retries < MAX_RETRIES` of the retry arm.
RetryAllowed(r) == r < MAX_RETRIES

\* Duration::from_millis(1000 * retries as u64)
BackoffDelay(r) == BackoffUnitMs * r

\* No fetch_logs_range call is active and none has been made by this call.
NoFetch ==
    /\ filter' = <<0, 0>>
    /\ retries' = 0
    /\ fetch_result' = "none"
    /\ requests' = 0
    /\ failures' = 0
    /\ sleeps' = <<>>

\* fetch_logs_range(from, to) up to its first get_logs request: the filter
\* and `retries = 0`. `fs` is the history of the fetches made before it.
FetchLogsRange(from, to, fs) ==
    /\ filter' = <<from, to>>
    /\ retries' = 0
    /\ fetch_result' = "pending"
    /\ requests' = 1
    /\ failures' = 0
    /\ sleeps' = <<>>
    /\ fetches' = Append(fs, <<from, to>>)
    /\ pc' = "fetch"

\* An overflow with overflow-checks on panics: the call never returns.
\* `ph` is the phase the call is in.
Panic(ph) ==
    /\ pc' = "panicked"
    /\ ie_status' = IF ph \in {"direct", "historical"} THEN "panicked"
                                                        ELSE ie_status

\* The rest of index_events once the while loop is left: every accumulated
\* log goes to process_log, is_indexing = false, Ok(()). Inside run the next
\* await is subscribe_blocks.
IndexEventsFinish(acc, done, ph) ==
    /\ processed' = done \o acc
    /\ all_logs' = <<>>
    /\ is_indexing' = FALSE
    /\ ie_status' = "ok"
    /\ IF ph = "historical"
       THEN pc' = "subscribe" /\ result' = "none"
       ELSE pc' = "returned" /\ result' = "ok"

\* The while loop of index_events from its test `current <= to_block` with
\* current = cur and all_logs = acc, up to the next await. `fs` and `done`
\* are the fetches and the processed logs of the call so far. is_indexing
\* is true since the entry of index_events.
IndexLoop(cur, to, acc, fs, done, ph) ==
    /\ current' = cur
    /\ IF cur <= to
       THEN LET end == SubRangeEnd(cur, to)
            IN /\ all_logs' = acc
               /\ processed' = done
               /\ result' = "none"
               /\ is_indexing' = TRUE
               /\ IF overflow_checks /\ SubRangeEndOverflows(cur)
                  THEN /\ Panic(ph)
                       /\ fetches' = fs
                       /\ UNCHANGED fetch_vars
                  ELSE /\ FetchLogsRange(cur, end, fs)
                       /\ ie_status' = "running"
       ELSE /\ IndexEventsFinish(acc, done, ph)
            /\ fetches' = fs
            /\ UNCHANGED fetch_vars

\* index_events(from, to) up to its first await: is_indexing = true,
\* _total_blocks, current = from_block, all_logs = [] and the loop.
IndexEventsEntry(from, to, ph) ==
    /\ phase' = ph
    /\ from_block' = from
    /\ to_block' = to
    /\ headers' = 0
    /\ hist_cursor' = None
    /\ IF overflow_checks /\ (to < from \/ to - from + 1 > U64Max)
       THEN /\ Panic(ph)
            /\ is_indexing' = TRUE
            /\ result' = "none"
            /\ current' = 0
            /\ all_logs' = <<>>
            /\ fetches' = <<>>
            /\ processed' = <<>>
            /\ UNCHANGED fetch_vars
       ELSE IndexLoop(from, to, <<>>, <<>>, <<>>, ph)

\* Mutant: the head block itself counts as history still to be indexed.
NeedsHistorical_Inclusive(start, head) == start <= head

\* if start_block < latest_block
NeedsHistorical(start, head) == start < head

\* run(start_block) from the answer latest_block of get_block_number to the
\* next await: the first get_logs of index_events, or subscribe_blocks.
Run ==
    /\ pc = "idle"
    /\ \E start_opt \in OptionU64, head \in U64 :
         LET start_block == IF start_opt = None THEN last_indexed_block
                                                ELSE start_opt
         IN /\ latest_block' = head
            /\ last_indexed_block' = start_block
            /\ cursor_indexed' = (start_opt = None /\ cursor_indexed)
            /\ IF NeedsHistorical(start_block, head)
               THEN IndexEventsEntry(start_block, head, "historical")
               ELSE /\ pc' = "subscribe"
                    /\ UNCHANGED <<is_indexing, phase, result, ie_vars,
                                   fetch_vars, fetches, processed, headers,
                                   hist_cursor>>
    /\ UNCHANGED <<cfg_vars, cancelled, w_vars>>

\* run when get_block_number answers Err: `?` returns it.
RunProviderError ==
    /\ pc = "idle"
    /\ pc' = "returned"
    /\ result' = "err"
    /\ UNCHANGED <<last_indexed_block, is_indexing, phase, ie_vars, fetch_vars,
                   fetches, processed, headers, hist_cursor, latest_block,
                   cursor_indexed>>
    /\ UNCHANGED <<cfg_vars, cancelled, w_vars>>

\* index_events called by the owner of the indexer (it is pub).
IndexEvents ==
    /\ pc = "idle"
    /\ \E from \in U64, to \in U64 : IndexEventsEntry(from, to, "direct")
    /\ UNCHANGED <<last_indexed_block, latest_block, cursor_indexed>>
    /\ UNCHANGED <<cfg_vars, cancelled, w_vars>>

\* get_logs answers Ok inside index_events: fetch_logs_range returns the
\* logs; all_logs.extend(logs), last_indexed_block = end, current = end + 1,
\* and the loop goes on to its next await.
FetchOkHistorical ==
    /\ pc = "fetch"
    /\ phase \in {"direct", "historical"}
    /\ Len(fetches) < MaxFetches
    /\ last_indexed_block' = CursorAfterFetch(filter[1], filter[2])
    /\ cursor_indexed' = TRUE
    /\ IF overflow_checks /\ filter[2] + 1 > U64Max
       THEN /\ Panic(phase)
            /\ all_logs' = all_logs \o GetLogs(filter[1], filter[2])
            /\ filter' = filter
            /\ retries' = retries
            /\ fetch_result' = "ok"
            /\ UNCHANGED <<requests, failures, sleeps>>
            /\ UNCHANGED <<is_indexing, result, current, fetches, processed>>
       ELSE IndexLoop(WrappingAdd(filter[2], 1), to_block,
                      all_logs \o GetLogs(filter[1], filter[2]),
                      fetches, processed, phase)
    /\ UNCHANGED <<phase, from_block, to_block, headers, hist_cursor,
                   latest_block>>
    /\ UNCHANGED <<cfg_vars, cancelled, w_vars>>

\* get_logs answers Err while retries < MAX_RETRIES: retries += 1, the sleep
\* of 1000 * retries ms, and the next get_logs request.
FetchErrRetry ==
    /\ pc = "fetch"
    /\ RetryAllowed(retries)
    /\ retries' = retries + 1
    /\ failures' = failures + 1
    /\ sleeps' = Append(sleeps, BackoffDelay(retries'))
    /\ requests' = requests + 1
    /\ UNCHANGED <<filter, fetch_result>>
    /\ UNCHANGED <<last_indexed_block, is_indexing, pc, phase, result, ie_vars,
                   fetches, processed, headers, hist_cursor, latest_block,
                   cursor_indexed>>
    /\ UNCHANGED <<cfg_vars, cancelled, w_vars>>

\* Mutant: run logs the error of the historical phase and goes on to the
\* subscription.
FetchErrFinal_Swallowed ==
    /\ pc = "fetch"
    /\ ~RetryAllowed(retries)
    /\ failures' = failures + 1
    /\ fetch_result' = "err"
    /\ IF phase = "historical"
       THEN pc' = "subscribe" /\ result' = result
       ELSE pc' = "returned" /\ result' = "err"
    /\ ie_status' = IF phase \in {"direct", "historical"} THEN "err"
                                                          ELSE ie_status
    /\ UNCHANGED <<filter, retries, requests, sleeps>>
    /\ UNCHANGED <<last_indexed_block, is_indexing, phase, from_block,
                   to_block, current, all_logs, fetches, processed, headers,
                   hist_cursor, latest_block, cursor_indexed>>
    /\ UNCHANGED <<cfg_vars, cancelled, w_vars>>

\* get_logs answers Err with the retries used up: the error goes up through
\* every `?` of the call chain and the top-level call returns it.
FetchErrFinal ==
    /\ pc = "fetch"
    /\ ~RetryAllowed(retries)
    /\ failures' = failures + 1
    /\ fetch_result' = "err"
    /\ pc' = "returned"
    /\ result' = "err"
    /\ ie_status' = IF phase \in {"direct", "historical"} THEN "err"
                                                          ELSE ie_status
    /\ UNCHANGED <<filter, retries, requests, sleeps>>
    /\ UNCHANGED <<last_indexed_block, is_indexing, phase, from_block,
                   to_block, current, all_logs, fetches, processed, headers,
                   hist_cursor, latest_block, cursor_indexed>>
    /\ UNCHANGED <<cfg_vars, cancelled, w_vars>>

\* subscribe_blocks answers Ok: the live loop waits for the first header.
Subscribe ==
    /\ pc = "subscribe"
    /\ pc' = "live_wait"
    /\ phase' = "live"
    /\ hist_cursor' = last_indexed_block
    /\ UNCHANGED <<last_indexed_block, is_indexing, result, ie_vars,
                   fetch_vars, fetches, processed, headers, latest_block,
                   cursor_indexed>>
    /\ UNCHANGED <<cfg_vars, cancelled, w_vars>>

\* subscribe_blocks answers Err: run returns it.
SubscribeError ==
    /\ pc = "subscribe"
    /\ pc' = "returned"
    /\ result' = "err"
    /\ UNCHANGED <<last_indexed_block, is_indexing, phase, ie_vars,
                   fetch_vars, fetches, processed, headers, hist_cursor,
                   latest_block, cursor_indexed>>
    /\ UNCHANGED <<cfg_vars, cancelled, w_vars>>

\* Mutant: the cursor is set to the header's number as soon as the header is
\* taken, before the fetch.
LiveHeader_AdvanceEarly ==
    /\ pc = "live_wait"
    /\ headers < MaxHeaders
    /\ \E number \in U64 :
         /\ IF overflow_checks /\ last_indexed_block + 1 > U64Max
            THEN /\ Panic(phase)
                 /\ UNCHANGED <<fetch_vars, fetches>>
            ELSE /\ FetchLogsRange(LiveFromBlock(last_indexed_block), number,
                                   fetches)
                 /\ UNCHANGED ie_status
         /\ last_indexed_block' = number
    /\ headers' = headers + 1
    /\ UNCHANGED <<is_indexing, phase, result, from_block, to_block, current,
                   all_logs, processed, hist_cursor, latest_block,
                   cursor_indexed>>
    /\ UNCHANGED <<cfg_vars, cancelled, w_vars>>

\* The stream yields a header: from_block = last_indexed_block + 1 and
\* fetch_logs_range(from_block, block.number) up to its get_logs request.
\* The number is whatever the provider sends.
LiveHeader ==
    /\ pc = "live_wait"
    /\ headers < MaxHeaders
    /\ \E number \in U64 :
         IF overflow_checks /\ last_indexed_block + 1 > U64Max
         THEN /\ Panic(phase)
              /\ UNCHANGED <<fetch_vars, fetches>>
         ELSE /\ FetchLogsRange(LiveFromBlock(last_indexed_block), number,
                                fetches)
              /\ UNCHANGED ie_status
    /\ headers' = headers + 1
    /\ UNCHANGED <<last_indexed_block, is_indexing, phase, result, from_block,
                   to_block, current, all_logs, processed, hist_cursor,
                   latest_block, cursor_indexed>>
    /\ UNCHANGED <<cfg_vars, cancelled, w_vars>>

\* get_logs answers Ok inside the live loop: every log goes to process_log,
\* last_indexed_block = block_number, and the loop waits for the next header.
FetchOkLive ==
    /\ pc = "fetch"
    /\ phase = "live"
    /\ fetch_result' = "ok"
    /\ processed' = processed \o GetLogs(filter[1], filter[2])
    /\ last_indexed_block' = filter[2]
    /\ cursor_indexed' = TRUE
    /\ pc' = "live_wait"
    /\ UNCHANGED <<filter, retries, requests, failures, sleeps>>
    /\ UNCHANGED <<is_indexing, phase, result, ie_vars, fetches, headers,
                   hist_cursor, latest_block>>
    /\ UNCHANGED <<cfg_vars, cancelled, w_vars>>

\* The stream ends: subscribe_and_index and run return Ok(()).
StreamEnd ==
    /\ pc = "live_wait"
    /\ pc' = "returned"
    /\ result' = "ok"
    /\ UNCHANGED <<last_indexed_block, is_indexing, phase, ie_vars,
                   fetch_vars, fetches, processed, headers, hist_cursor,
                   latest_block, cursor_indexed>>
    /\ UNCHANGED <<cfg_vars, cancelled, w_vars>>

\* The caller has the result of the call: the future, with its locals, is
\* dropped and the indexer can be called again. The history kept for the
\* call starts afresh.
CallReturned ==
    /\ pc = "returned"
    /\ pc' = "idle"
    /\ phase' = "none"
    /\ result' = "none"
    /\ ie_status' = "none"
    /\ from_block' = 0
    /\ to_block' = 0
    /\ current' = 0
    /\ all_logs' = <<>>
    /\ NoFetch
    /\ fetches' = <<>>
    /\ processed' = <<>>
    /\ headers' = 0
    /\ hist_cursor' = None
    /\ latest_block' = None
    /\ UNCHANGED <<last_indexed_block, is_indexing, cursor_indexed>>
    /\ UNCHANGED <<cfg_vars, cancelled, w_vars>>

Next ==
    \/ CallReturned
    \/ Run
    \/ RunProviderError
    \/ IndexEvents
    \/ FetchOkHistorical
    \/ FetchErrRetry
    \/ FetchErrFinal
    \/ Subscribe
    \/ SubscribeError
    \/ LiveHeader
    \/ FetchOkLive
    \/ StreamEnd

Spec == Init /\ [][Next]_vars

(***************************************************************************)
(* Properties of the EventIndexer.                                         *)
(***************************************************************************)
\* The blocks of the closed range r = <<from, to>>.
Blocks(r) == {b \in U64 : r[1] <= b /\ b <= r[2]}

\* How many of the processed logs belong to block b.
TimesProcessed(b) == Cardinality({i \in 1..Len(processed) : processed[i] = b})

\* The only fetches made so far are those of an index_events call.
InIndexEvents == phase \in {"direct", "historical"}

\* C1: for from <= to, the sub-ranges index_events fetches are well-formed,
\* at most batch_size long, start at from, follow one another without gap or
\* overlap, and once the call has returned Ok the last one ends at to.
C1_SubRangesPartition ==
    (InIndexEvents /\ from_block <= to_block) =>
        /\ \A i \in 1..Len(fetches) :
             /\ fetches[i][1] <= fetches[i][2]
             /\ fetches[i][2] - fetches[i][1] + 1 <= batch_size
             /\ fetches[i][2] <= to_block
        /\ Len(fetches) >= 1 => fetches[1][1] = from_block
        /\ \A i \in 1..(Len(fetches) - 1) :
             fetches[i + 1][1] = fetches[i][2] + 1
        /\ ie_status = "ok" =>
             /\ Len(fetches) >= 1
             /\ fetches[Len(fetches)][2] = to_block

\* The fetches of the live loop: all but those index_events made.
FirstLive == Len(fetches) - headers + 1

\* The chain head only advances: every header of the live loop is above the
\* one before it, and the first is above the head get_block_number answered
\* (to_block when there was a historical phase, some number >= 0 otherwise).
HeadsAdvance ==
    \A i \in FirstLive..Len(fetches) :
      fetches[i][2] > (IF i > FirstLive THEN fetches[i - 1][2]
                       ELSE IF ie_status = "ok" THEN to_block ELSE 0)

\* C2: while the chain head only advances, the first live fetch starts at
\* (cursor after the historical phase) + 1, every later one at the previous
\* upper bound + 1, no block is in two fetched ranges of the run, and every
\* block from the first one the run had to index up to the last processed
\* head is in one.
C2_GapFreeTransition ==
    (phase = "live" /\ pc # "panicked" /\ HeadsAdvance) =>
        /\ headers >= 1 => fetches[FirstLive][1] = hist_cursor + 1
        /\ \A i \in FirstLive..(Len(fetches) - 1) :
             fetches[i + 1][1] = fetches[i][2] + 1
        /\ \A i, j \in 1..Len(fetches) :
             i < j => Blocks(fetches[i]) \cap Blocks(fetches[j]) = {}
        /\ (pc = "live_wait" /\ headers >= 1) =>
             \A b \in U64 :
               ((IF ie_status = "ok" THEN from_block ELSE hist_cursor + 1) <= b
                  /\ b <= last_indexed_block)
               => \E i \in 1..Len(fetches) : b \in Blocks(fetches[i])

\* C3: whenever index_events(from, to) with from <= to has returned Ok,
\* last_indexed_block = to.
C3_CursorAtToOnSuccess ==
    (InIndexEvents /\ ie_status = "ok" /\ from_block <= to_block) =>
        last_indexed_block = to_block

\* index_events has returned Ok after fetching more than one sub-range.
C3_Witness ==
    /\ InIndexEvents
    /\ ie_status = "ok"
    /\ from_block < to_block
    /\ Len(fetches) >= 2
    /\ last_indexed_block = to_block

\* C4: whatever config.max_retries is, a fetch_logs_range call that has seen
\* N failures has made N + 1 requests with N <= 3 while it is pending or has
\* returned Ok, and it has returned Err only after exactly 4 failures and 4
\* requests.
C4_RetryBoundThree ==
    /\ fetch_result \in {"pending", "ok"} =>
         /\ failures <= 3
         /\ requests = failures + 1
    /\ fetch_result = "err" =>
         /\ failures = 4
         /\ requests = 4

\* A call under a configured max_retries that is not 3 has returned the logs
\* after three failures.
C4_Witness ==
    /\ max_retries # 3
    /\ fetch_result = "ok"
    /\ failures = 3
    /\ requests = 4

\* C5: the delay slept before the k-th retry is k * config.retry_delay_ms.
C5_DelayFromConfig ==
    \A k \in 1..Len(sleeps) : sleeps[k] = k * retry_delay_ms

\* C6: no step lowers last_indexed_block (stated for the build in which an
\* overflow panics, so that no wrapped value is involved).
C6_CursorMonotonic ==
    [][overflow_checks => last_indexed_block' >= last_indexed_block]_vars

\* C7: when index_events has returned, with Ok or with the error of a
\* sub-range fetch after the first, the logs of every block in
\* [from, last_indexed_block] went to process_log exactly once (stated for
\* the build in which an overflow panics, so that no wrapped value is
\* involved).
C7_ExactlyOnce ==
    (/\ overflow_checks
     /\ InIndexEvents
     /\ from_block <= to_block
     /\ \/ ie_status = "ok"
        \/ ie_status = "err" /\ Len(fetches) >= 2) =>
        \A b \in U64 :
          (from_block <= b /\ b <= last_indexed_block) => TimesProcessed(b) = 1

\* The effective start of the run in progress: the first argument of
\* index_events when run called it, otherwise the value run wrote to the
\* cursor (which nothing changes before the first live fetch returns).
RunStart ==
    IF ie_status # "none" THEN from_block
    ELSE IF hist_cursor # None THEN hist_cursor
    ELSE last_indexed_block

\* A run is in progress whose effective start is the head get_block_number
\* answered.
StartedAtHead == latest_block # None /\ RunStart = latest_block

\* C11: in a run whose effective start equals the head observed at its
\* beginning, index_events is not called and every fetch is one of the live
\* loop, is_indexing stays false, and the fetch made for the first head
\* above the observed one begins at head + 1.
C11_StartAtHeadSkipsHistory ==
    /\ [](StartedAtHead =>
            /\ ie_status = "none"
            /\ phase \in {"none", "live"}
            /\ Len(fetches) <= headers
            /\ (Len(fetches) >= 1 /\ fetches[1][2] > latest_block) =>
                 fetches[1][1] = latest_block + 1)
    /\ [][(StartedAtHead' /\ ~is_indexing) => ~is_indexing']_vars

\* run(Some(h)) on a chain whose head is h >= 1: the live loop has fetched
\* [h + 1, h + 2] for its first header and no other range.
C11_Witness ==
    /\ StartedAtHead
    /\ latest_block >= 1
    /\ pc = "live_wait"
    /\ headers = 1
    /\ fetches = << <<latest_block + 1, latest_block + 2>> >>
    /\ ~is_indexing

\* C12: every range handed to fetch_logs_range, by index_events or by the
\* live loop, spans at most batch_size blocks (stated for the build in which
\* an overflow panics, so that no wrapped bound is involved).
C12_FetchWithinBatchSize ==
    overflow_checks =>
        \A i \in 1..Len(fetches) :
          fetches[i][2] - fetches[i][1] + 1 <= batch_size

\* No index_events call is executing: the indexer is not inside a call, the
\* call has returned, or run is at or past subscribe_blocks.
NoIndexEventsExecuting ==
    \/ pc \in {"idle", "returned", "subscribe", "live_wait"}
    \/ phase = "live" /\ pc = "fetch"

\* C13: is_indexing is false in every state where no index_events call is
\* executing, also after index_events has returned an error, and throughout
\* the live phase.
C13_IndexingFlagOnlyDuringIndexEvents ==
    NoIndexEventsExecuting => ~is_indexing

\* C15: a fetch that has used up its retries ends the call at once: the
\* call returns that error with no further log processed, no further fetch
\* and no further header handled; after an error of index_events inside run
\* the subscription is never opened and no live fetch is made; and a call
\* that has returned does nothing more.
C15_NoFailureSwallowed ==
    /\ [](fetch_result = "err" => (pc = "returned" /\ result = "err"))
    /\ [](ie_status = "err" =>
            /\ pc = "returned"
            /\ result = "err"
            /\ phase \in {"direct", "historical"}
            /\ processed = <<>>
            /\ hist_cursor = None
            /\ headers = 0)
    /\ [][(fetch_result # "err" /\ fetch_result' = "err") =>
            /\ pc' = "returned"
            /\ result' = "err"
            /\ processed' = processed
            /\ fetches' = fetches
            /\ headers' = headers]_vars
    /\ [][pc = "returned" => pc' = "idle"]_vars

\* Inside run, the second sub-range of the historical phase has failed for
\* good: run has returned the error without opening the subscription.
C15_Witness ==
    /\ phase = "historical"
    /\ ie_status = "err"
    /\ result = "err"
    /\ pc = "returned"
    /\ Len(fetches) >= 2
    /\ failures = 4
    /\ hist_cursor = None

\* An indexer whose provider may answer get_logs in either block order.
ProviderInit ==
    /\ batch_size \in {1, 2, U64Max}
    /\ max_retries = DefaultMaxRetries
    /\ retry_delay_ms = DefaultRetryDelayMs
    /\ overflow_checks \in BOOLEAN
    /\ provider_ascending \in BOOLEAN
    /\ cancelled = FALSE
    /\ IndexerNew
    /\ buffer_size = 1
    /\ WatcherNew

ProviderSpec == ProviderInit /\ [][Next]_vars

\* C16: within one index_events call no log goes to process_log before the
\* fetch of the last sub-range has succeeded, and the logs are processed in
\* ascending block order, whatever order the provider returns the logs of a
\* sub-range in (stated for the build in which an overflow panics, so that
\* no wrapped bound is involved).
C16_ProcessedInOrderAfterLastFetch ==
    (overflow_checks /\ InIndexEvents /\ from_block <= to_block) =>
        /\ processed # <<>> =>
             /\ ie_status = "ok"
             /\ fetches[Len(fetches)][2] = to_block
        /\ \A i \in 1..(Len(processed) - 1) : processed[i] <= processed[i + 1]

\* C17: when run is called with no explicit start on an indexer whose cursor
\* c was written after a successful fetch, and the head is above c, the
\* first range the run fetches begins at c + 1 (so block c is not fetched
\* again).
C17_ResumeAfterCursor ==
    [][(/\ pc = "idle"
        /\ pc' = "fetch"
        /\ phase' = "historical"
        /\ cursor_indexed'
        /\ latest_block' > last_indexed_block)
       => filter'[1] = last_indexed_block + 1]_vars

\* C18: every range handed to the provider has from <= to, also when the
\* live loop gets a header whose number is not above the cursor (stated for
\* the build in which an overflow panics, so that no wrapped bound is
\* involved).
C18_RangesWellFormed ==
    overflow_checks =>
        \A i \in 1..Len(fetches) : fetches[i][1] <= fetches[i][2]

\* C19: in the live loop the cursor changes only in the step in which the
\* pending fetch over [cursor + 1, head] returns Ok, to that head, together
\* with the processing of every log of the answer; taking a header,
\* retrying and the final error of a fetch leave last_indexed_block and
\* is_indexing as they were; and a retry re-issues the filter unchanged
\* (address and topic are fields nothing writes after new).
C19_LiveCursorOnlyAfterSuccess ==
    /\ [][(phase = "live" /\ last_indexed_block' # last_indexed_block) =>
            /\ pc = "fetch"
            /\ fetch_result = "pending"
            /\ fetch_result' = "ok"
            /\ filter[1] = (last_indexed_block + 1) % Modulus
            /\ last_indexed_block' = filter[2]
            /\ Len(processed') = Len(processed)
                                   + Len(GetLogs(filter[1], filter[2]))]_vars
    /\ [][(phase = "live" /\ phase' = "live" /\ fetch_result' # "ok") =>
            /\ last_indexed_block' = last_indexed_block
            /\ is_indexing' = is_indexing]_vars
    /\ [][(pc = "fetch" /\ requests' = requests + 1) =>
            /\ filter' = filter
            /\ last_indexed_block' = last_indexed_block]_vars

\* The fetch for the second header of a live loop has failed for good: the
\* cursor is still the number of the first header.
C19_Witness ==
    /\ phase = "live"
    /\ headers = 2
    /\ fetch_result = "err"
    /\ failures = 4
    /\ result = "err"
    /\ Len(fetches) >= 2
    /\ last_indexed_block = fetches[Len(fetches) - 1][2]
    /\ filter[1] = last_indexed_block + 1
    /\ ~is_indexing

\* C20: for from <= to no arithmetic of index_events leaves the integer
\* type, and neither does last_indexed_block + 1 in the live loop: no call
\* panics on an overflow, every sub-range's `current + batch_size - 1` and
\* every completed sub-range's `end + 1` is within the type, and no live
\* fetch starts at the wrapped value 0.
C20_NoOverflow ==
    /\ (InIndexEvents /\ from_block <= to_block) =>
         /\ pc # "panicked"
         /\ \A i \in 1..Len(fetches) :
              /\ ~SubRangeEndOverflows(fetches[i][1])
              /\ (i < Len(fetches) \/ ie_status = "ok") =>
                   fetches[i][2] + 1 <= U64Max
    /\ phase = "live" =>
         /\ pc # "panicked"
         /\ \A i \in FirstLive..Len(fetches) : fetches[i][1] >= 1

(***************************************************************************)
(* Cancellation. CancellableContext::cancelled returns a future that       *)
(* resolves once cancellation is requested; run takes no context and no    *)
(* part of the EventIndexer awaits that future.                            *)
(***************************************************************************)
\* The owner of the context requests cancellation.
Cancel ==
    /\ ~cancelled
    /\ cancelled' = TRUE
    /\ UNCHANGED <<cfg_vars, idx_vars, w_vars>>

CancelNext ==
    \/ Next
    \/ Cancel

\* The runtime runs the indexer's task whenever it is ready and the caller
\* takes the result of a call that returned; the provider answers every
\* get_logs and subscribe_blocks request. Nothing makes the subscription
\* yield a header or end.
CancelFairSpec ==
    /\ Init
    /\ [][CancelNext]_vars
    /\ WF_vars(CallReturned)
    /\ WF_vars(FetchOkHistorical \/ FetchOkLive \/ FetchErrRetry
                 \/ FetchErrFinal)
    /\ WF_vars(Subscribe \/ SubscribeError)

\* C14: once cancellation is requested while run waits in its live loop for
\* the next header, run returns, whether or not a further header arrives or
\* the subscription ends.
C14_CancellationObserved ==
    (cancelled /\ phase = "live" /\ pc = "live_wait") ~> (pc = "returned")

(***************************************************************************)
(* DAWatcher.                                                              *)
(*                                                                         *)
(* watch() makes a tokio mpsc channel of capacity buffer_size, spawns the  *)
(* producer task and returns the Receiver. The task's await points are     *)
(* tx.send and sleep. tokio's bounded send returns Err as soon as the      *)
(* Receiver is dropped (also to a sender waiting for capacity), and waits  *)
(* while the channel holds buffer_size messages.                           *)
(***************************************************************************)
\* data_hash: vec![0u8; 32]
HashLen == 32

\* The ProposalManifest built by the task; the timestamp (the wall clock) is
\* left out.
Proposal(n) == [block_number |-> n, data_hash |-> [i \in 1..HashLen |-> 0]]

\* Mutant: the channel takes a message whatever it already holds.
HasCapacity_Unbounded == TRUE

\* The channel of mpsc::channel(self.buffer_size) has room for a message.
HasCapacity == Len(chan) < buffer_size

\* Mutant: the counter is not advanced.
NextBlockNumber_Same(n) == n

\* block_number += 1
NextBlockNumber(n) == n + 1

WInit ==
    /\ batch_size = 1
    /\ max_retries = DefaultMaxRetries
    /\ retry_delay_ms = DefaultRetryDelayMs
    /\ overflow_checks = FALSE
    /\ provider_ascending = TRUE
    /\ cancelled = FALSE
    /\ IndexerNew
    /\ buffer_size \in 0..MaxBufferSize
    /\ WatcherNew

\* watch(): mpsc::channel(buffer_size), which panics on 0, and tokio::spawn.
\* The spawned task builds its first proposal and calls tx.send.
Watch ==
    /\ wpc = "new"
    /\ wpc' = IF buffer_size = 0 THEN "panicked" ELSE "send"
    /\ UNCHANGED <<buffer_size, block_number, chan, rx_alive, sent, received,
                   sends_after_drop>>
    /\ UNCHANGED <<cfg_vars, cancelled, idx_vars>>

\* tx.send(proposal) completes with Ok: the channel has room. Then
\* block_number += 1 and the sleep.
SendOk ==
    /\ wpc = "send"
    /\ rx_alive
    /\ HasCapacity
    /\ chan' = Append(chan, Proposal(block_number))
    /\ sent' = Append(sent, Proposal(block_number))
    /\ block_number' = NextBlockNumber(block_number)
    /\ wpc' = "sleep"
    /\ UNCHANGED <<buffer_size, rx_alive, received, sends_after_drop>>
    /\ UNCHANGED <<cfg_vars, cancelled, idx_vars>>

\* Mutant: the task logs the failed send and goes on with its loop.
SendErr_NoBreak ==
    /\ wpc = "send"
    /\ ~rx_alive
    /\ wpc' = "sleep"
    /\ UNCHANGED <<buffer_size, block_number, chan, rx_alive, sent, received,
                   sends_after_drop>>
    /\ UNCHANGED <<cfg_vars, cancelled, idx_vars>>

\* tx.send(proposal) completes with Err: the Receiver is gone. `break`.
SendErr ==
    /\ wpc = "send"
    /\ ~rx_alive
    /\ wpc' = "done"
    /\ UNCHANGED <<buffer_size, block_number, chan, rx_alive, sent, received,
                   sends_after_drop>>
    /\ UNCHANGED <<cfg_vars, cancelled, idx_vars>>

\* The sleep is over: the next turn of the loop builds a proposal and calls
\* tx.send.
Wake ==
    /\ wpc = "sleep"
    /\ block_number < MaxManifests \/ ~rx_alive
    /\ wpc' = "send"
    /\ sends_after_drop' = IF rx_alive THEN sends_after_drop
                                       ELSE Min(sends_after_drop + 1, 2)
    /\ UNCHANGED <<buffer_size, block_number, chan, rx_alive, sent, received>>
    /\ UNCHANGED <<cfg_vars, cancelled, idx_vars>>

\* The consumer's receiver.recv() returns the oldest buffered manifest.
Recv ==
    /\ wpc \notin {"new", "panicked"}
    /\ rx_alive
    /\ chan # <<>>
    /\ received' = Append(received, Head(chan))
    /\ chan' = Tail(chan)
    /\ UNCHANGED <<buffer_size, wpc, block_number, rx_alive, sent,
                   sends_after_drop>>
    /\ UNCHANGED <<cfg_vars, cancelled, idx_vars>>

\* The consumer drops the Receiver: the channel is closed and what it still
\* buffers is dropped with it.
DropReceiver ==
    /\ wpc \notin {"new", "panicked"}
    /\ rx_alive
    /\ rx_alive' = FALSE
    /\ chan' = <<>>
    /\ UNCHANGED <<buffer_size, wpc, block_number, sent, received,
                   sends_after_drop>>
    /\ UNCHANGED <<cfg_vars, cancelled, idx_vars>>

WNext ==
    \/ Watch
    \/ SendOk
    \/ SendErr
    \/ Wake
    \/ Recv
    \/ DropReceiver

WatcherSpec == WInit /\ [][WNext]_vars

\* The tokio runtime runs a task that is ready: a sleep ends, and a send that
\* can complete (with Ok or with Err) completes.
WatcherFairSpec ==
    WatcherSpec /\ WF_vars(Wake) /\ WF_vars(SendErr) /\ WF_vars(SendOk)

(***************************************************************************)
(* Properties of the DAWatcher.                                            *)
(***************************************************************************)
\* C8: the channel never buffers more than buffer_size manifests; while it
\* buffers buffer_size of them the producer's send cannot complete; and as
\* long as the Receiver lives every manifest sent is either received or
\* still buffered, in the order sent.
C8_Backpressure ==
    /\ Len(chan) <= buffer_size
    /\ (wpc = "send" /\ rx_alive /\ Len(chan) = buffer_size) => ~ENABLED SendOk
    /\ rx_alive => sent = received \o chan

\* The producer is suspended in send on a full channel of capacity > 1.
C8_Witness ==
    /\ buffer_size >= 2
    /\ Len(chan) = buffer_size
    /\ wpc = "send"
    /\ rx_alive
    /\ Len(received) >= 1

\* C9: once the Receiver is dropped the producer task ends, no send
\* completes with Ok after the drop, and the task begins at most one send
\* after it.
C9_TerminatesAfterDrop ==
    /\ (~rx_alive) ~> (wpc = "done")
    /\ [][~rx_alive => sent' = sent]_vars
    /\ [](sends_after_drop <= 1)

\* The Receiver was dropped while the task slept; the task woke, called send
\* once and ended.
C9_Witness ==
    /\ ~rx_alive
    /\ wpc = "done"
    /\ sends_after_drop = 1
    /\ Len(sent) >= 2

\* C10: the i-th manifest received has block_number i - 1 and a data_hash of
\* 32 bytes.
C10_ConsecutiveFromZero ==
    \A i \in 1..Len(received) :
      /\ received[i].block_number = i - 1
      /\ Len(received[i].data_hash) = 32

\* Three manifests received through a channel of capacity 1.
C10_Witness ==
    /\ buffer_size = 1
    /\ Len(received) >= 3
====
